---- MODULE Spec2Model ----
(***************************************************************************)
(* pap86: a disassembler for the 8086 MOV family.                          *)
(*                                                                         *)
(* main reads a file of machine code into a byte buffer, decode walks the  *)
(* buffer with a forward-only cursor (Input) and builds a vector of        *)
(* Instruction values, output renders one line of assembly per             *)
(* instruction.  Any panic (a read past the end of the buffer, an opcode   *)
(* the classifier does not know) unwinds main before output is called.     *)
(*                                                                         *)
(* Bytes are numbers 0..255, the buffer is a sequence of them, the cursor  *)
(* index counts the bytes consumed (the source's 0-based index).           *)
(***************************************************************************)
EXTENDS Integers, Sequences, FiniteSets, TLC

VARIABLES input, index, res, pc, panic, out

vars == <<input, index, res, pc, panic, out>>

(***************************************************************************)
(* Bounds of the model.                                                    *)
(***************************************************************************)
\* Longest buffer that starts with a reg/mem opcode (1000_10dw).
MaxRegMemLen == 4
\* Longest buffer that starts with an immediate-to-mem opcode (1100_011w).
MaxImmMemLen == 6
\* Longest buffer that starts with an immediate-to-reg opcode (1011_wreg).
MaxImmRegLen == 3

Byte == 0..255

\* Bytes that follow the first two bytes of a reg/mem buffer: displacement
\* and address values (zero, 0x12, 0x34, a positive and two bytes with bit 7
\* set), of which 0x88 is also the opcode of a following instruction and
\* 0x00 its ModR/M byte.
RegMemData == {\h00, \h12, \h34, \h7F, \h88, \hFF}

\* Bytes that follow the first two bytes of an immediate-to-mem buffer:
\* displacement and immediate values (0, 200 = 0xC8, 300 = 0x012C), of which
\* 0x88 is also the opcode of a following instruction.
ImmMemData == {\h00, \h01, \h2C, \h88, \hC8}

\* First bytes of the two-byte buffers: every opcode the classifier accepts,
\* the accumulator forms 1010_00xx next to them, and two other bytes.
TwoByteOpcodes ==
    (\h88..\h8B) \cup {\hC6, \hC7} \cup (\hB0..\hBF) \cup (\hA0..\hA3) \cup {\h00, \hFF}

\* ModR/M bytes of the immediate-to-mem buffers: every mode and r/m, with the
\* reg field 000 (the encoding of MOV) or 111.
ImmMemModRM == {mode * 64 + reg * 8 + rm : mode \in 0..3, reg \in {0, 7}, rm \in 0..7}

SeqsUpTo(S, n) == UNION {[1..k -> S] : k \in 0..n}

\* The buffers main may have read: the empty file, every one-byte file, every
\* two-byte file that starts with one of TwoByteOpcodes, and longer files
\* that begin with each family's opcodes.
InputBuffer(buf) ==
    \/ buf = <<>>
    \/ \E b \in Byte : buf = <<b>>
    \/ \E o \in TwoByteOpcodes, s \in Byte : buf = <<o, s>>
    \/ \E o \in \h88..\h8B, s \in Byte, t \in SeqsUpTo(RegMemData, MaxRegMemLen - 2) :
          buf = <<o, s>> \o t
    \/ \E o \in {\hC6, \hC7}, s \in ImmMemModRM, t \in SeqsUpTo(ImmMemData, MaxImmMemLen - 2) :
          buf = <<o, s>> \o t
    \/ \E o \in \hB0..\hBF, s \in RegMemData \cup ImmMemData,
          t \in SeqsUpTo(RegMemData \cup ImmMemData, MaxImmRegLen - 2) :
          buf = <<o, s>> \o t

(***************************************************************************)
(* Bit operations on u8 values, as arithmetic.                             *)
(***************************************************************************)
Shr(b, n) == b \div (2 ^ n)

RECURSIVE BitAnd(_, _)
BitAnd(a, b) ==
    IF a = 0 \/ b = 0 THEN 0
    ELSE (a % 2) * (b % 2) + 2 * BitAnd(a \div 2, b \div 2)

\* (hi as u16) << 8 | (lo as u16)
Word(lo, hi) == hi * 256 + lo

(***************************************************************************)
(* enum Register, enum EffectiveAddressFormula: FromRepr lookups.          *)
(***************************************************************************)
None == "None"

Register ==
    <<"AL", "CL", "DL", "BL", "AH", "CH", "DH", "BH",
      "AX", "CX", "DX", "BX", "SP", "BP", "SI", "DI">>

\* Register_from_repr with the last variant missing.
Register_from_repr_short(repr) ==
    IF repr \in 0..14 THEN Register[repr + 1] ELSE None

Register_from_repr(repr) ==
    IF repr \in 0..15 THEN Register[repr + 1] ELSE None

EffectiveAddressFormula ==
    <<"BxPlusSi", "BxPlusDi", "BpPlusSi", "BpPlusDi", "Si", "Di", "Bp", "Bx">>

EffectiveAddressFormula_from_repr(repr) ==
    IF repr \in 0..7 THEN EffectiveAddressFormula[repr + 1] ELSE None

\* impl Display for EffectiveAddressFormula
EffectiveAddressFormula_fmt(formula) ==
    CASE formula = "BxPlusSi" -> "bx + si"
      [] formula = "BxPlusDi" -> "bx + di"
      [] formula = "BpPlusSi" -> "bp + si"
      [] formula = "BpPlusDi" -> "bp + di"
      [] formula = "Si" -> "si"
      [] formula = "Di" -> "di"
      [] formula = "Bp" -> "bp"
      [] formula = "Bx" -> "bx"

\* dst.as_ref().to_lowercase(): the variant's name in lower case.
to_lowercase(name) ==
    CASE name = "AL" -> "al" [] name = "CL" -> "cl" [] name = "DL" -> "dl"
      [] name = "BL" -> "bl" [] name = "AH" -> "ah" [] name = "CH" -> "ch"
      [] name = "DH" -> "dh" [] name = "BH" -> "bh" [] name = "AX" -> "ax"
      [] name = "CX" -> "cx" [] name = "DX" -> "dx" [] name = "BX" -> "bx"
      [] name = "SP" -> "sp" [] name = "BP" -> "bp" [] name = "SI" -> "si"
      [] name = "DI" -> "di"

(***************************************************************************)
(* Opcode::parse: the classifier of the first byte.                        *)
(***************************************************************************)
Opcode_parse(byte) ==
    IF BitAnd(byte, \b11111100) = \b10001000 THEN "MovRegToRegOrRegToMem"
    ELSE IF BitAnd(byte, \b11111110) = \b11000110 THEN "MovImmediateToMem"
    ELSE IF BitAnd(byte, \b11110000) = \b10110000 THEN "MovImmediateToReg"
    ELSE "InvalidOpcode"

(***************************************************************************)
(* enum Instruction.  displacement: Option<u16> is <<>> for None and       *)
(* <<d>> for Some(d).                                                      *)
(***************************************************************************)
MovRegToReg(dst, src) == [type |-> "MovRegToReg", dst |-> dst, src |-> src]

MovMemToReg(dst, formula, displacement) ==
    [type |-> "MovMemToReg", dst |-> dst, formula |-> formula,
     displacement |-> displacement]

MovRegToMem(formula, displacement, src) ==
    [type |-> "MovRegToMem", formula |-> formula,
     displacement |-> displacement, src |-> src]

MovMemDirectToReg(dst, address) ==
    [type |-> "MovMemDirectToReg", dst |-> dst, address |-> address]

MovRegToMemDirect(address, src) ==
    [type |-> "MovRegToMemDirect", address |-> address, src |-> src]

MovImmediateToMem(formula, displacement, data) ==
    [type |-> "MovImmediateToMem", formula |-> formula,
     displacement |-> displacement, data |-> data]

MovImmediateMemDirect(address, data) ==
    [type |-> "MovImmediateMemDirect", address |-> address, data |-> data]

MovImmediateToReg(dst, data) ==
    [type |-> "MovImmediateToReg", dst |-> dst, data |-> data]

(***************************************************************************)
(* impl Display for Instruction.                                           *)
(***************************************************************************)
\* displacement_fmt without the test for zero.
displacement_fmt_unsuppressed(displacement) ==
    IF displacement # <<>>
    THEN " + " \o ToString(displacement[1])
    ELSE ""

\* The displacement part of a memory operand: " + N" for Some(N) with N > 0,
\* nothing for Some(0) and for None.  N is the u16 the decoder stored.
displacement_fmt(displacement) ==
    IF displacement # <<>>
    THEN IF displacement[1] > 0
         THEN " + " \o ToString(displacement[1])
         ELSE ""
    ELSE ""

\* data_fmt with the limit of a byte off by one.
data_fmt_off_by_one(data) ==
    IF data > 256
    THEN "word " \o ToString(data)
    ELSE "byte " \o ToString(data)

\* The immediate of a MOV to memory, with its size keyword.
data_fmt(data) ==
    IF data > 255
    THEN "word " \o ToString(data)
    ELSE "byte " \o ToString(data)

Instruction_fmt(i) ==
    CASE i.type = "MovRegToReg" ->
           "mov " \o to_lowercase(i.dst) \o ", " \o to_lowercase(i.src)
      [] i.type = "MovMemToReg" ->
           "mov " \o to_lowercase(i.dst) \o ", ["
                  \o EffectiveAddressFormula_fmt(i.formula)
                  \o displacement_fmt(i.displacement) \o "]"
      [] i.type = "MovRegToMem" ->
           "mov [" \o EffectiveAddressFormula_fmt(i.formula)
                   \o displacement_fmt(i.displacement) \o "], "
                   \o to_lowercase(i.src)
      [] i.type = "MovMemDirectToReg" ->
           "mov " \o to_lowercase(i.dst) \o ", [" \o ToString(i.address) \o "]"
      [] i.type = "MovRegToMemDirect" ->
           "mov [" \o ToString(i.address) \o "], " \o to_lowercase(i.src)
      [] i.type = "MovImmediateToMem" ->
           "mov [" \o EffectiveAddressFormula_fmt(i.formula)
                   \o displacement_fmt(i.displacement) \o "], "
                   \o data_fmt(i.data)
      [] i.type = "MovImmediateMemDirect" ->
           "mov [" \o ToString(i.address) \o "], " \o data_fmt(i.data)
      [] i.type = "MovImmediateToReg" ->
           "mov " \o to_lowercase(i.dst) \o ", " \o ToString(i.data)

(***************************************************************************)
(* struct Input: the cursor.  A decoding step is a function of the buffer  *)
(* and the cursor index; it yields the panic raised ("none" when the       *)
(* instruction is complete), the cursor index it leaves and the            *)
(* instruction built.                                                      *)
(***************************************************************************)
NoPanic == "none"
IndexOutOfBounds == "index out of bounds"
InvalidOpcode == "Invalid opcode"
InvalidReg == "Invalid reg"
InvalidFormula == "Invalid formula"
InvalidMode == "Invalid mode!"

Done(idx, instruction) ==
    [panic |-> NoPanic, index |-> idx, instruction |-> instruction]

Panicked(msg, idx) ==
    [panic |-> msg, index |-> idx, instruction |-> None]

\* Input::is_empty
is_empty(inp, idx) == idx = Len(inp)

\* Input::next_byte succeeds n times in a row from idx: self.input[self.index]
\* is in bounds for each of them.
CanRead(inp, idx, n) == idx + n <= Len(inp)

\* The byte next_byte returns at cursor index idx (0-based).
ByteAt(inp, idx) == inp[idx + 1]

\* A next_byte that yields 0 past the end instead of panicking: the
\* instruction is completed from bytes the buffer does not hold.
next_byte_zero_fill(inp) == Done(Len(inp), MovImmediateToReg("AL", 0))

\* The first next_byte that indexes past the end panics before it advances
\* the cursor: every byte of the buffer has been consumed by then.
next_byte_panic(inp) == Panicked(IndexOutOfBounds, Len(inp))

\* The closure get_data of the immediate-to-mem arm: the bytes it needs.
get_data_len(w) == IF w > 0 THEN 2 ELSE 1

\* The closure get_data: the immediate read at idx.
get_data(w, inp, idx) ==
    IF w > 0
    THEN Word(ByteAt(inp, idx), ByteAt(inp, idx + 1))
    ELSE ByteAt(inp, idx)

(***************************************************************************)
(* decode, arm Opcode::MovRegToRegOrRegToMem.  idx is the cursor index     *)
(* after the ModR/M byte was read; d, w and reg_1 come from the first two  *)
(* bytes.                                                                  *)
(***************************************************************************)
\* RegMem_mode00 without the direct-address case: r/m 110 taken as bp.
RegMem_mode00_no_direct(inp, idx, d, reg_1, mem) ==
    LET formula == EffectiveAddressFormula_from_repr(mem)
    IN  IF formula = None THEN Panicked(InvalidFormula, idx)
        ELSE IF d > 0
             THEN Done(idx, MovMemToReg(reg_1, formula, <<>>))
             ELSE Done(idx, MovRegToMem(formula, <<>>, reg_1))

\* mode 0b00: the direct address when r/m = 110, else the bare formula.
RegMem_mode00(inp, idx, d, reg_1, mem) ==
    IF mem = \b110
    THEN IF ~CanRead(inp, idx, 2) THEN next_byte_panic(inp)
         ELSE LET direct == Word(ByteAt(inp, idx), ByteAt(inp, idx + 1))
              IN  IF d > 0
                  THEN Done(idx + 2, MovMemDirectToReg(reg_1, direct))
                  ELSE Done(idx + 2, MovRegToMemDirect(direct, reg_1))
    ELSE LET formula == EffectiveAddressFormula_from_repr(mem)
         IN  IF formula = None THEN Panicked(InvalidFormula, idx)
             ELSE IF d > 0
                  THEN Done(idx, MovMemToReg(reg_1, formula, <<>>))
                  ELSE Done(idx, MovRegToMem(formula, <<>>, reg_1))

\* mode 0b01: one displacement byte, input.next_byte() as u16.
RegMem_mode01(inp, idx, d, reg_1, mem) ==
    LET formula == EffectiveAddressFormula_from_repr(mem)
    IN  IF formula = None THEN Panicked(InvalidFormula, idx)
        ELSE IF ~CanRead(inp, idx, 1) THEN next_byte_panic(inp)
        ELSE LET displacement == ByteAt(inp, idx)
             IN  IF d > 0
                 THEN Done(idx + 1, MovMemToReg(reg_1, formula, <<displacement>>))
                 ELSE Done(idx + 1, MovRegToMem(formula, <<displacement>>, reg_1))

\* RegMem_mode10 reading its displacement as mode 0b01 does: one byte.
RegMem_mode10_one_byte(inp, idx, d, reg_1, mem) ==
    RegMem_mode01(inp, idx, d, reg_1, mem)

\* mode 0b10: two displacement bytes, low byte first.
RegMem_mode10(inp, idx, d, reg_1, mem) ==
    LET formula == EffectiveAddressFormula_from_repr(mem)
    IN  IF formula = None THEN Panicked(InvalidFormula, idx)
        ELSE IF ~CanRead(inp, idx, 2) THEN next_byte_panic(inp)
        ELSE LET displacement == Word(ByteAt(inp, idx), ByteAt(inp, idx + 1))
             IN  IF d > 0
                 THEN Done(idx + 2, MovMemToReg(reg_1, formula, <<displacement>>))
                 ELSE Done(idx + 2, MovRegToMem(formula, <<displacement>>, reg_1))

\* RegMem_mode11 with the direction bit read the other way round.
RegMem_mode11_swapped(idx, d, w, reg_1, instruction_byte_2) ==
    LET w_reg_2 == w * 8 + BitAnd(instruction_byte_2, \b111)
        reg_2 == Register_from_repr(w_reg_2)
    IN  IF reg_2 = None THEN Panicked(InvalidReg, idx)
        ELSE LET dst == IF d = 1 THEN reg_2 ELSE reg_1
                 src == IF d = 1 THEN reg_1 ELSE reg_2
             IN  Done(idx, MovRegToReg(dst, src))

\* mode 0b11: r/m names a second register of the same width.
RegMem_mode11(idx, d, w, reg_1, instruction_byte_2) ==
    LET w_reg_2 == w * 8 + BitAnd(instruction_byte_2, \b111)
        reg_2 == Register_from_repr(w_reg_2)
    IN  IF reg_2 = None THEN Panicked(InvalidReg, idx)
        ELSE LET dst == IF d = 1 THEN reg_1 ELSE reg_2
                 src == IF d = 1 THEN reg_2 ELSE reg_1
             IN  Done(idx, MovRegToReg(dst, src))

\* The arm: idx is the cursor index after the opcode byte was read.
decode_MovRegToRegOrRegToMem(inp, idx, instruction_byte_1) ==
    LET d == BitAnd(Shr(instruction_byte_1, 1), 1)
        w == BitAnd(instruction_byte_1, 1)
    IN  IF ~CanRead(inp, idx, 1) THEN next_byte_panic(inp)
        ELSE LET instruction_byte_2 == ByteAt(inp, idx)
                 w_reg_1 == w * 8 + BitAnd(Shr(instruction_byte_2, 3), \b111)
                 reg_1 == Register_from_repr(w_reg_1)
                 mode == Shr(instruction_byte_2, 6)
                 mem == BitAnd(instruction_byte_2, \b111)
             IN  IF reg_1 = None THEN Panicked(InvalidReg, idx + 1)
                 ELSE CASE mode = \b00 -> RegMem_mode00(inp, idx + 1, d, reg_1, mem)
                        [] mode = \b01 -> RegMem_mode01(inp, idx + 1, d, reg_1, mem)
                        [] mode = \b10 -> RegMem_mode10(inp, idx + 1, d, reg_1, mem)
                        [] mode = \b11 ->
                             RegMem_mode11(idx + 1, d, w, reg_1, instruction_byte_2)
                        [] OTHER -> Panicked(InvalidMode, idx + 1)

(***************************************************************************)
(* decode, arm Opcode::MovImmediateToMem.  idx is the cursor index after   *)
(* the ModR/M byte was read.                                               *)
(***************************************************************************)
\* mode 0b00: direct address then immediate when r/m = 110, else formula
\* then immediate.
ImmMem_mode00(inp, idx, w, mem) ==
    IF mem = \b110
    THEN IF ~CanRead(inp, idx, 2 + get_data_len(w)) THEN next_byte_panic(inp)
         ELSE LET direct == Word(ByteAt(inp, idx), ByteAt(inp, idx + 1))
                  data == get_data(w, inp, idx + 2)
              IN  Done(idx + 2 + get_data_len(w), MovImmediateMemDirect(direct, data))
    ELSE LET formula == EffectiveAddressFormula_from_repr(mem)
         IN  IF formula = None THEN Panicked(InvalidFormula, idx)
             ELSE IF ~CanRead(inp, idx, get_data_len(w)) THEN next_byte_panic(inp)
             ELSE Done(idx + get_data_len(w),
                       MovImmediateToMem(formula, <<>>, get_data(w, inp, idx)))

\* ImmMem_mode01 calling get_data before it reads the displacement.
ImmMem_mode01_data_first(inp, idx, w, mem) ==
    LET formula == EffectiveAddressFormula_from_repr(mem)
    IN  IF formula = None THEN Panicked(InvalidFormula, idx)
        ELSE IF ~CanRead(inp, idx, 1 + get_data_len(w)) THEN next_byte_panic(inp)
        ELSE LET data == get_data(w, inp, idx)
                 displacement == ByteAt(inp, idx + get_data_len(w))
             IN  Done(idx + 1 + get_data_len(w),
                      MovImmediateToMem(formula, <<displacement>>, data))

\* mode 0b01: one displacement byte as u16, then the immediate.
ImmMem_mode01(inp, idx, w, mem) ==
    LET formula == EffectiveAddressFormula_from_repr(mem)
    IN  IF formula = None THEN Panicked(InvalidFormula, idx)
        ELSE IF ~CanRead(inp, idx, 1 + get_data_len(w)) THEN next_byte_panic(inp)
        ELSE LET displacement == ByteAt(inp, idx)
                 data == get_data(w, inp, idx + 1)
             IN  Done(idx + 1 + get_data_len(w),
                      MovImmediateToMem(formula, <<displacement>>, data))

\* mode 0b10: two displacement bytes, then the immediate.
ImmMem_mode10(inp, idx, w, mem) ==
    LET formula == EffectiveAddressFormula_from_repr(mem)
    IN  IF formula = None THEN Panicked(InvalidFormula, idx)
        ELSE IF ~CanRead(inp, idx, 2 + get_data_len(w)) THEN next_byte_panic(inp)
        ELSE LET displacement == Word(ByteAt(inp, idx), ByteAt(inp, idx + 1))
                 data == get_data(w, inp, idx + 2)
             IN  Done(idx + 2 + get_data_len(w),
                      MovImmediateToMem(formula, <<displacement>>, data))

\* mode 0b11: the destination is the register r/m names; the instruction
\* built is the immediate-to-register variant.
ImmMem_mode11(inp, idx, w, instruction_byte_2) ==
    LET w_reg == w * 8 + BitAnd(instruction_byte_2, \b111)
        reg == Register_from_repr(w_reg)
    IN  IF reg = None THEN Panicked(InvalidReg, idx)
        ELSE IF ~CanRead(inp, idx, get_data_len(w)) THEN next_byte_panic(inp)
        ELSE Done(idx + get_data_len(w),
                  MovImmediateToReg(reg, get_data(w, inp, idx)))

decode_MovImmediateToMem(inp, idx, instruction_byte_1) ==
    LET w == BitAnd(instruction_byte_1, 1)
    IN  IF ~CanRead(inp, idx, 1) THEN next_byte_panic(inp)
        ELSE LET instruction_byte_2 == ByteAt(inp, idx)
                 mode == Shr(instruction_byte_2, 6)
                 mem == BitAnd(instruction_byte_2, \b111)
             IN  CASE mode = \b00 -> ImmMem_mode00(inp, idx + 1, w, mem)
                   [] mode = \b01 -> ImmMem_mode01(inp, idx + 1, w, mem)
                   [] mode = \b10 -> ImmMem_mode10(inp, idx + 1, w, mem)
                   [] mode = \b11 ->
                        ImmMem_mode11(inp, idx + 1, w, instruction_byte_2)
                   [] OTHER -> Panicked(InvalidMode, idx + 1)

(***************************************************************************)
(* decode, arm Opcode::MovImmediateToReg: register and width in the low    *)
(* four bits of the opcode byte.                                           *)
(***************************************************************************)
decode_MovImmediateToReg(inp, idx, instruction_byte_1) ==
    LET w_reg == BitAnd(instruction_byte_1, \b1111)
        dst == Register_from_repr(w_reg)
    IN  IF dst = None THEN Panicked(InvalidReg, idx)
        ELSE IF BitAnd(w_reg, \b1000) > 0
             THEN IF ~CanRead(inp, idx, 2) THEN next_byte_panic(inp)
                  ELSE Done(idx + 2, MovImmediateToReg(dst,
                                Word(ByteAt(inp, idx), ByteAt(inp, idx + 1))))
             ELSE IF ~CanRead(inp, idx, 1) THEN next_byte_panic(inp)
                  ELSE Done(idx + 1, MovImmediateToReg(dst, ByteAt(inp, idx)))

(***************************************************************************)
(* decode: one iteration of the while loop, from the read of the opcode    *)
(* byte to the value pushed.  The loop guard has found the cursor not      *)
(* empty, so the opcode byte is in bounds.                                 *)
(***************************************************************************)
decode_instruction(inp, idx) ==
    LET instruction_byte_1 == ByteAt(inp, idx)
        opcode == Opcode_parse(instruction_byte_1)
    IN  CASE opcode = "MovRegToRegOrRegToMem" ->
               decode_MovRegToRegOrRegToMem(inp, idx + 1, instruction_byte_1)
          [] opcode = "MovImmediateToMem" ->
               decode_MovImmediateToMem(inp, idx + 1, instruction_byte_1)
          [] opcode = "MovImmediateToReg" ->
               decode_MovImmediateToReg(inp, idx + 1, instruction_byte_1)
          [] OTHER -> Panicked(InvalidOpcode, idx + 1)

(***************************************************************************)
(* The program: main reads the file, calls decode, then output.            *)
(***************************************************************************)
Init ==
    /\ InputBuffer(input)
    /\ index = 0
    /\ res = <<>>
    /\ pc = "decode"
    /\ panic = NoPanic
    /\ out = <<>>

\* An iteration that pushes its instruction and leaves the cursor where it
\* was: the loop decode would be without next_byte's index += 1.
DecodePush_cursor_stuck ==
    /\ pc = "decode"
    /\ ~is_empty(input, index)
    /\ LET r == decode_instruction(input, index)
       IN  /\ r.panic = NoPanic
           /\ index' = index
           /\ res' = Append(res, r.instruction)
    /\ UNCHANGED <<input, pc, panic, out>>

\* One iteration of decode's loop that pushes an instruction.
DecodePush ==
    /\ pc = "decode"
    /\ ~is_empty(input, index)
    /\ LET r == decode_instruction(input, index)
       IN  /\ r.panic = NoPanic
           /\ index' = r.index
           /\ res' = Append(res, r.instruction)
    /\ UNCHANGED <<input, pc, panic, out>>

\* One iteration of decode's loop that panics: the process ends, res is
\* dropped with decode's frame and main never reaches output.
DecodePanic ==
    /\ pc = "decode"
    /\ ~is_empty(input, index)
    /\ LET r == decode_instruction(input, index)
       IN  /\ r.panic # NoPanic
           /\ index' = r.index
           /\ panic' = r.panic
    /\ pc' = "panicked"
    /\ UNCHANGED <<input, res, out>>

\* The loop guard fails: decode returns res to main.
DecodeReturn ==
    /\ pc = "decode"
    /\ is_empty(input, index)
    /\ pc' = "output"
    /\ UNCHANGED <<input, index, res, panic, out>>

\* output: the header line, then one line per instruction.
output(instructions) ==
    <<"bits 16">> \o [k \in 1..Len(instructions) |-> Instruction_fmt(instructions[k])]

\* main calls output on what decode returned, and exits.
Output ==
    /\ pc = "output"
    /\ out' = output(res)
    /\ pc' = "exit"
    /\ UNCHANGED <<input, index, res, panic>>

Next == DecodePush \/ DecodePanic \/ DecodeReturn \/ Output

Spec == Init /\ [][Next]_vars

(***************************************************************************)
(* What the properties below read off a state.  The first instruction of   *)
(* the buffer starts at input[1]; its fields are those of the 8086         *)
(* encoding.  Once res holds an instruction, res[1] was decoded from       *)
(* them, and after output, out[2] is its line.                             *)
(***************************************************************************)
B1 == input[1]
B2 == input[2]

IsRegMem(b) == b \in \h88..\h8B
IsImmMem(b) == b \in {\hC6, \hC7}
IsImmReg(b) == b \in \hB0..\hBF

W == B1 % 2
D == (B1 \div 2) % 2
Mode == B2 \div 64
Reg == (B2 \div 8) % 8
Rm == B2 % 8

\* Bytes between the ModR/M byte and the immediate: a displacement (mode 01,
\* mode 10) or a direct address (mode 00, r/m 110).
DispLen == CASE Mode = 1 -> 1 [] Mode = 2 -> 2 [] Mode = 0 /\ Rm = 6 -> 2 [] OTHER -> 0

\* The immediate of an immediate-to-mem instruction, read after DispLen bytes.
ImmAt(pos) == IF W = 1 THEN input[pos] + 256 * input[pos + 1] ELSE input[pos]

\* The 8086 register names by W:REG, and the address formulas by r/m.
RegText ==
    <<"al", "cl", "dl", "bl", "ah", "ch", "dh", "bh",
      "ax", "cx", "dx", "bx", "sp", "bp", "si", "di">>

FormulaText == <<"bx + si", "bx + di", "bp + si", "bp + di", "si", "di", "bp", "bx">>

RegName(w, r) == RegText[w * 8 + r + 1]

\* The first instruction is complete and its line is written.
FirstWritten == pc = "exit" /\ Len(res) >= 1

\* The memory operand of a decoded instruction, as its line shows it.
MemOperand(ins) ==
    IF "address" \in DOMAIN ins
    THEN "[" \o ToString(ins.address) \o "]"
    ELSE "[" \o EffectiveAddressFormula_fmt(ins.formula)
             \o displacement_fmt(ins.displacement) \o "]"

SizeKeywords == {"byte ", "word "}

(***************************************************************************)
(* C1: round trip.                                                         *)
(***************************************************************************)
\* The buffers an assembler could produce for the same line with another
\* operand width: W flipped, the immediate one byte longer or shorter.
TailVariants(t) ==
    {t}
    \cup {SubSeq(t, 1, k - 1) \o <<0>> \o SubSeq(t, k, Len(t)) : k \in 1..(Len(t) + 1)}
    \cup {SubSeq(t, 1, k - 1) \o SubSeq(t, k + 1, Len(t)) : k \in {j \in 1..Len(t) : t[j] = 0}}

AfterModRM == SubSeq(input, 3, Len(input))

WidthRivals ==
    {<<IF W = 1 THEN B1 - 1 ELSE B1 + 1, B2>> \o t : t \in TailVariants(AfterModRM)}

\* The buffers with the same fields in another addressing mode.
ModeRivals ==
    {<<B1, (B2 % 64) + 64 * m>> \o t : m \in (0..3) \ {Mode}, t \in TailVariants(AfterModRM)}

\* rival is one complete instruction whose line is the given one.
RendersAs(rival, line) ==
    LET r == decode_instruction(rival, 0)
    IN  /\ r.panic = NoPanic
        /\ r.index = Len(rival)
        /\ Instruction_fmt(r.instruction) = line

\* C1: the line of a decoded instruction determines its bytes.  When the
\* buffer is one immediate-to-memory MOV, no buffer that differs from it in
\* the W bit (and the immediate's length) renders to the same line; when it
\* is one instruction with a mode-01 displacement byte that has bit 7 set, no
\* buffer in another addressing mode renders to the same line.
C1_RoundTrip ==
    (pc = "exit" /\ Len(res) = 1 /\ Len(input) >= 3) =>
        /\ (IsImmMem(B1) /\ Mode # 3) =>
              \A rival \in WidthRivals : ~RendersAs(rival, out[2])
        /\ ((IsRegMem(B1) \/ IsImmMem(B1)) /\ Mode = 1 /\ input[3] >= 128) =>
              \A rival \in ModeRivals : ~RendersAs(rival, out[2])

(***************************************************************************)
(* C2: opcode classification.                                              *)
(***************************************************************************)
\* The ordered table of five (mask, pattern) rules; the first match wins.
ClassifierTable ==
    <<[mask |-> \b11111100, pattern |-> \b10001000, family |-> "MovRegToRegOrRegToMem"],
      [mask |-> \b11111110, pattern |-> \b11000110, family |-> "MovImmediateToMem"],
      [mask |-> \b11110000, pattern |-> \b10110000, family |-> "MovImmediateToReg"],
      [mask |-> \b11111110, pattern |-> \b10100000, family |-> "MovMemToAcc"],
      [mask |-> \b11111110, pattern |-> \b10100010, family |-> "MovAccToMem"]>>

Matching(b) ==
    {k \in 1..Len(ClassifierTable) :
        BitAnd(b, ClassifierTable[k].mask) = ClassifierTable[k].pattern}

FirstMatch(b) ==
    IF Matching(b) = {} THEN "InvalidOpcode"
    ELSE ClassifierTable[CHOOSE k \in Matching(b) : \A j \in Matching(b) : k <= j].family

\* C2: once the first byte of the buffer has been classified, the classifier
\* has returned the family of the first matching rule of the five-rule
\* table, and decode has stopped with the unrecognized-opcode panic exactly
\* when the byte matches none of the five rules.
C2_Classification ==
    (Len(input) >= 1 /\ (index >= 1 \/ pc # "decode")) =>
        /\ Opcode_parse(B1) = FirstMatch(B1)
        /\ (panic = InvalidOpcode /\ index = 1) <=> (Matching(B1) = {})

(***************************************************************************)
(* C3: sign of the 8-bit displacement.                                     *)
(***************************************************************************)
\* The line of the first instruction when its memory operand is the text mem.
LineWithMem(mem) ==
    IF IsRegMem(B1)
    THEN {IF D = 1
          THEN "mov " \o RegName(W, Reg) \o ", " \o mem
          ELSE "mov " \o mem \o ", " \o RegName(W, Reg)}
    ELSE {"mov " \o mem \o ", " \o size \o ToString(ImmAt(3 + DispLen)) :
             size \in SizeKeywords}

\* C3: a mode-01 instruction whose displacement byte b has bit 7 set decodes
\* to the displacement b - 256 (as 16 bits: b + 65280) and its memory operand
\* is written [<formula> - N] with N = 256 - b.
C3_SignExtended ==
    (FirstWritten /\ (IsRegMem(B1) \/ IsImmMem(B1)) /\ Mode = 1 /\ input[3] >= 128) =>
        /\ res[1].displacement = <<input[3] + 65280>>
        /\ out[2] \in LineWithMem("[" \o FormulaText[Rm + 1] \o " - "
                                      \o ToString(256 - input[3]) \o "]")

(***************************************************************************)
(* C4: zero displacement.                                                  *)
(***************************************************************************)
DispZero == IF Mode = 1 THEN input[3] = 0 ELSE input[3] = 0 /\ input[4] = 0

\* C4: an instruction of mode 01 or mode 10 whose displacement bytes are all
\* zero is written with the memory operand [<formula>], in either direction
\* and in the immediate-to-mem family, which is the line of the same
\* instruction without a displacement.
C4_ZeroSuppressed ==
    (FirstWritten /\ (IsRegMem(B1) \/ IsImmMem(B1)) /\ Mode \in {1, 2} /\ DispZero) =>
        /\ res[1].displacement = <<0>>
        /\ out[2] \in LineWithMem("[" \o FormulaText[Rm + 1] \o "]")
        /\ out[2] = Instruction_fmt([res[1] EXCEPT !.displacement = <<>>])

\* 8B 80 00 00: mode 10, displacement 0, written without a suffix.
C4_Witness ==
    /\ pc = "exit"
    /\ input = <<\h8B, \h80, \h00, \h00>>
    /\ out = <<"bits 16", "mov ax, [bx + si]">>

(***************************************************************************)
(* C5: size keyword of an immediate.                                       *)
(***************************************************************************)
\* C5: an immediate-to-memory MOV writes its immediate as "byte N" when
\* N <= 255 and as "word N" otherwise; an immediate-to-register MOV (first
\* byte 1011_wreg) writes the plain decimal value after the register's name.
C5_SizeAnnotation ==
    FirstWritten =>
        /\ (IsImmMem(B1) /\ Mode # 3) =>
              LET v == ImmAt(3 + DispLen)
              IN  out[2] = "mov " \o MemOperand(res[1]) \o ", "
                                  \o (IF v <= 255 THEN "byte " ELSE "word ")
                                  \o ToString(v)
        /\ IsImmReg(B1) =>
              LET v == IF B1 % 16 >= 8 THEN input[2] + 256 * input[3] ELSE input[2]
              IN  out[2] = "mov " \o RegText[(B1 % 16) + 1] \o ", " \o ToString(v)

\* C7 00 2C 01: W = 1, immediate 300.
C5_Witness ==
    /\ pc = "exit"
    /\ input = <<\hC7, \h00, \h2C, \h01>>
    /\ out = <<"bits 16", "mov [bx + si], word 300">>

(***************************************************************************)
(* C6: direct address.                                                     *)
(***************************************************************************)
\* C6: in the reg/mem and immediate-to-mem families, mode 00 with r/m 110
\* reads the next two bytes as a little-endian address and builds a direct
\* operand, written [<address>] in decimal and never with the bp formula;
\* any other r/m in mode 00 reads no address byte.
C6_DirectAddress ==
    (Len(res) >= 1 /\ (IsRegMem(B1) \/ IsImmMem(B1)) /\ Mode = 0) =>
        /\ IF Rm = 6
           THEN /\ "formula" \notin DOMAIN res[1]
                /\ res[1].address = input[3] + 256 * input[4]
           ELSE /\ "address" \notin DOMAIN res[1]
                /\ res[1].displacement = <<>>
        /\ (Len(res) = 1 /\ pc = "decode") =>
              index = 2 + (IF Rm = 6 THEN 2 ELSE 0)
                        + (IF IsImmMem(B1) THEN (IF W = 1 THEN 2 ELSE 1) ELSE 0)
        /\ (pc = "exit" /\ Rm = 6) =>
              out[2] \in LineWithMem("[" \o ToString(input[3] + 256 * input[4]) \o "]")

\* 88 06 34 12: the direct operand at 0x1234 = 4660.
C6_Witness ==
    /\ pc = "exit"
    /\ input = <<\h88, \h06, \h34, \h12>>
    /\ res = <<MovRegToMemDirect(4660, "AL")>>
    /\ out = <<"bits 16", "mov [4660], al">>

(***************************************************************************)
(* C7: direction bit.                                                      *)
(***************************************************************************)
\* C7: in the reg/mem family the register named by the reg field of byte 2
\* is the destination when D = 1 and the source when D = 0, and the operand
\* given by mode and r/m is the other one, in every mode.
C7_Direction ==
    (FirstWritten /\ IsRegMem(B1)) =>
        LET named == RegName(W, Reg)
            other == IF Mode = 3 THEN RegName(W, Rm) ELSE MemOperand(res[1])
        IN  /\ D = 1 => /\ to_lowercase(res[1].dst) = named
                        /\ out[2] = "mov " \o named \o ", " \o other
            /\ D = 0 => /\ to_lowercase(res[1].src) = named
                        /\ out[2] = "mov " \o other \o ", " \o named

\* 89 D8: D = 0, W = 1, reg = 011 (bx), r/m = 000 (ax).
C7_Witness ==
    /\ pc = "exit"
    /\ input = <<\h89, \hD8>>
    /\ out = <<"bits 16", "mov ax, bx">>

(***************************************************************************)
(* C8: explicit size in the immediate-to-mem family.                       *)
(***************************************************************************)
\* C8: every instruction decoded from the immediate-to-mem family, mode 11
\* included, writes its immediate with a "byte " or "word " keyword.
C8_ExplicitSize ==
    (FirstWritten /\ IsImmMem(B1)) =>
        \E size \in SizeKeywords :
            out[2] = "mov " \o (IF Mode = 3 THEN RegName(W, Rm) ELSE MemOperand(res[1]))
                            \o ", " \o size \o ToString(ImmAt(3 + DispLen))

(***************************************************************************)
(* C9: truncated input.                                                    *)
(***************************************************************************)
\* The instruction that starts at offset k (0-based), by its encoding: the
\* opcode byte is one decode accepts, the length follows from the first two
\* bytes.
OpcodeAt(k) == input[k + 1]

Accepted(b) == IsRegMem(b) \/ IsImmMem(b) \/ IsImmReg(b)

DispLenOf(b2) ==
    CASE b2 \div 64 = 1 -> 1
      [] b2 \div 64 = 2 -> 2
      [] b2 \div 64 = 0 /\ b2 % 8 = 6 -> 2
      [] OTHER -> 0

EncodedLen(k) ==
    LET b1 == input[k + 1]
    IN  CASE IsRegMem(b1) -> 2 + DispLenOf(input[k + 2])
          [] IsImmMem(b1) -> 2 + DispLenOf(input[k + 2]) + (IF b1 % 2 = 1 THEN 2 ELSE 1)
          [] IsImmReg(b1) -> IF b1 % 16 >= 8 THEN 3 ELSE 2

\* The buffer ends inside the instruction that starts at offset k.
CutOffAt(k) == k + 2 > Len(input) \/ k + EncodedLen(k) > Len(input)

\* Walking the buffer from offset k, instruction by instruction, reaches an
\* instruction the buffer ends inside of.
RECURSIVE CutOffFrom(_)
CutOffFrom(k) ==
    /\ k < Len(input)
    /\ Accepted(OpcodeAt(k))
    /\ (CutOffAt(k) \/ CutOffFrom(k + EncodedLen(k)))

\* The instructions from offset k on that lie entirely inside the buffer.
RECURSIVE WholeFrom(_)
WholeFrom(k) ==
    IF k < Len(input) /\ Accepted(OpcodeAt(k)) /\ ~CutOffAt(k)
    THEN 1 + WholeFrom(k + EncodedLen(k))
    ELSE 0

\* C9: when the buffer ends inside an instruction, decode ends in the
\* out-of-bounds panic of next_byte, with the cursor at the end of the
\* buffer; it returns nothing to main, res holds only the instructions that
\* lie entirely inside the buffer, and no line is written.
C9_Truncated ==
    /\ (CutOffFrom(0) /\ pc # "decode") => panic = IndexOutOfBounds
    /\ panic = IndexOutOfBounds =>
          /\ CutOffFrom(0)
          /\ index = Len(input)
          /\ Len(res) = WholeFrom(0)
    /\ panic # NoPanic <=> pc = "panicked"
    /\ pc = "panicked" => out = <<>>

\* 88 C0 88 7F: the second instruction lacks its displacement byte; the
\* first one stays alone in res and nothing is written.
C9_Witness ==
    /\ input = <<\h88, \hC0, \h88, \h7F>>
    /\ pc = "panicked"
    /\ panic = IndexOutOfBounds
    /\ index = 4
    /\ res = <<MovRegToReg("AL", "AL")>>
    /\ out = <<>>

(***************************************************************************)
(* C10: the lookups are total.                                             *)
(***************************************************************************)
\* C10: the register lookup is defined for every (W, REG) in {0,1} x 0..7,
\* the formula lookup for every r/m in 0..7, and no buffer makes decode panic
\* with "Invalid reg", "Invalid formula" or "Invalid mode!".
C10_Exhaustive ==
    /\ \A w \in {0, 1}, r \in 0..7 :
          Register_from_repr(w * 8 + r) \in {Register[k] : k \in 1..Len(Register)}
    /\ \A rm \in 0..7 :
          EffectiveAddressFormula_from_repr(rm)
              \in {EffectiveAddressFormula[k] : k \in 1..Len(EffectiveAddressFormula)}
    /\ panic \notin {InvalidReg, InvalidFormula, InvalidMode}

\* 8B 7F 7F: W:REG = 1111 (di), r/m = 111 (bx), the last entry of each table.
C10_Witness ==
    /\ pc = "exit"
    /\ input = <<\h8B, \h7F, \h7F>>
    /\ res = <<MovMemToReg("DI", "Bx", <<127>>)>>
    /\ out = <<"bits 16", "mov di, [bx + 127]">>

(***************************************************************************)
(* C11: bytes consumed by one instruction.                                 *)
(***************************************************************************)
\* The length of an encoding, from its first two bytes.
LengthOf(b1, b2) ==
    CASE IsRegMem(b1) -> 2 + DispLenOf(b2)
      [] IsImmMem(b1) -> 2 + DispLenOf(b2) + (IF b1 % 2 = 1 THEN 2 ELSE 1)
      [] IsImmReg(b1) -> IF b1 % 16 >= 8 THEN 3 ELSE 2

\* C11: every iteration of decode that pushes an instruction moves the
\* cursor by 2 to 6 bytes, the opcode byte included, and by the number the
\* first two bytes of the instruction give.
C11_BytesConsumed ==
    [][Len(res') = Len(res) + 1 =>
          /\ index' - index \in 2..6
          /\ index' - index = LengthOf(input[index + 1], input[index + 2])]_vars

\* C7 80 00 01 2C 01: W = 1, mode 10, the longest encoding; the cursor stands
\* at 6 after the one iteration.
C11_Witness ==
    /\ input = <<\hC7, \h80, \h00, \h01, \h2C, \h01>>
    /\ pc = "decode"
    /\ index = 6
    /\ res = <<MovImmediateToMem("BxPlusSi", <<256>>, 300)>>

(***************************************************************************)
(* C12: order of the bytes of an immediate-to-mem instruction.             *)
(***************************************************************************)
\* The little-endian word at offset k (0-based).
WordAt(k) == input[k + 1] + 256 * input[k + 2]

\* What an iteration that starts at offset k with an immediate-to-mem opcode
\* must have built and where it must have left the cursor: ModR/M at k + 1,
\* then the displacement or address bytes, then the immediate.
ImmMemInOrder(k, ins, next) ==
    LET w == input[k + 1] % 2
        b2 == input[k + 2]
        mode == b2 \div 64
        after == k + 2 + DispLenOf(b2)
    IN  /\ mode = 1 => ins.displacement = <<input[k + 3]>>
        /\ mode = 2 => ins.displacement = <<WordAt(k + 2)>>
        /\ (mode = 0 /\ b2 % 8 = 6) => ins.address = WordAt(k + 2)
        /\ (mode = 0 /\ b2 % 8 # 6) => ins.displacement = <<>>
        /\ ins.data = (IF w = 1 THEN WordAt(after) ELSE input[after + 1])
        /\ next = after + (IF w = 1 THEN 2 ELSE 1)

\* C12: an iteration that decodes an immediate-to-mem instruction reads the
\* ModR/M byte, then the displacement (one byte in mode 01, two in mode 10,
\* low byte first) or the two address bytes (mode 00, r/m 110), then the
\* immediate: one byte when W = 0, two bytes (high << 8) | low when W = 1;
\* the cursor is left on the byte after the immediate, where the next
\* iteration reads its opcode.
C12_ImmediateLast ==
    [][(Len(res') = Len(res) + 1 /\ IsImmMem(input[index + 1])) =>
          ImmMemInOrder(index, res'[Len(res')], index')]_vars

\* C6 40 01 C8 88 00: displacement 1, then the immediate 200; 88 00 is the
\* next instruction.
C12_Witness ==
    /\ input = <<\hC6, \h40, \h01, \hC8, \h88, \h00>>
    /\ pc = "exit"
    /\ res = <<MovImmediateToMem("BxPlusSi", <<1>>, 200),
               MovRegToMem("BxPlusSi", <<>>, "AL")>>
    /\ out = <<"bits 16", "mov [bx + si + 1], byte 200", "mov [bx + si], al">>

(***************************************************************************)
(* C13: termination and progress of the cursor.                            *)
(***************************************************************************)
\* The process runs on its own thread until main returns or a panic ends
\* it: a step that can be taken is taken.
FairSpec == Spec /\ WF_vars(Next)

\* main has returned or the process has panicked.
Terminated == pc \in {"exit", "panicked"}

\* The offset reached from offset k after n whole instructions.
RECURSIVE OffsetAfter(_, _)
OffsetAfter(k, n) == IF n = 0 THEN k ELSE OffsetAfter(k + EncodedLen(k), n - 1)

\* What holds of the cursor and of res in every state.
CursorInBounds ==
    /\ index \in 0..Len(input)
    /\ pc \in {"output", "exit"} => (index = Len(input) /\ panic = NoPanic)
    /\ pc # "panicked" => index = OffsetAfter(0, Len(res))

\* What holds of every step: the cursor never moves back, an iteration of the
\* loop moves it by at least one byte, and an iteration that completes
\* appends the one instruction it decoded at the cursor to the end of res.
CursorAdvances ==
    /\ index' >= index
    /\ (pc = "decode" /\ ~is_empty(input, index)) => index' >= index + 1
    /\ \/ res' = res
       \/ /\ pc = "decode" /\ pc' = "decode"
          /\ res' = Append(res, decode_instruction(input, index).instruction)

\* C13: decode terminates on every buffer, either returning with the cursor
\* at the end of the buffer or panicking; the cursor never decreases, moves
\* by at least one byte in every iteration and never passes the end of the
\* buffer; res holds one instruction per completed iteration, in the order
\* of the buffer.
C13_Terminates ==
    /\ []CursorInBounds
    /\ [][CursorAdvances]_vars
    /\ <>Terminated

\* 88 C0 88 00: two iterations, two instructions in the order of the buffer,
\* the cursor at the end of the buffer when decode has returned.
C13_Witness ==
    /\ input = <<\h88, \hC0, \h88, \h00>>
    /\ pc = "exit"
    /\ index = 4
    /\ res = <<MovRegToReg("AL", "AL"), MovRegToMem("BxPlusSi", <<>>, "AL")>>
    /\ out = <<"bits 16", "mov al, al", "mov [bx + si], al">>

====
